---- MODULE Spec2Model ----
(***************************************************************************)
(* The land/nonland hill-climbing loop of engine/src/main.rs.              *)
(*                                                                         *)
(* Results of try_scenario are f64 averages in the program; here they are  *)
(* fixed-point numbers counted in hundredths of a turn, and a mean is kept *)
(* as the exact fraction sum/len, so that the comparison with the 0.01     *)
(* tolerance is decided without rounding. NaN results are left out.        *)
(*                                                                         *)
(* The card accessors of engine/src/creature.rs are modelled next to it:   *)
(* they are library functions that main never calls, so they have a        *)
(* specification of their own, SpecCard, over one card.                    *)
(*                                                                         *)
(* sim::try_scenario and sim::parse_command are outside main.rs: a call    *)
(* may return any of the values of Results and leave any step mode, and    *)
(* the console may give any command.                                       *)
(***************************************************************************)
EXTENDS Integers, Sequences, FiniteSets, TLC

VARIABLES
    pc,                 \* position of main: "loop", "eval1", "eval2", "decide", "tiebreak", "done"
    current_lands,
    current_nonlands,
    step_mode,          \* program_state.step_mode, as main observes it
    result_history,     \* HashMap<(u32, u32), Vec<f64>>
    iteration,
    results,            \* <<result0, result1, result2>> as far as this iteration has bound them
    tied_candidates,    \* the (lands, nonlands, avg) triples of the last decision
    tiebreaker_results,
    optimal,            \* the configuration printed as "Final suggestion", <<>> while none
    calls,              \* log of the try_scenario calls: configuration and returned value
    console,            \* what the last step did at the console, when that is traced
    card,               \* the Card the functions of creature.rs are applied to
    op                  \* the last call of a function of creature.rs: name, arguments,
                        \* result, and the card before the call

loopVars == <<pc, current_lands, current_nonlands, step_mode, result_history, iteration,
              results, tied_candidates, tiebreaker_results, optimal, calls>>

cardVars == <<card, op>>

vars == <<pc, current_lands, current_nonlands, step_mode, result_history, iteration,
          results, tied_candidates, tiebreaker_results, optimal, calls, console, card, op>>

\* ---------------------------------------------------------------- bounds

\* try_scenario returns one of MaxResult + 1 values
MaxResult == 1

\* power and toughness (u8 in the program, never computed with) range over 0..MaxStat
MaxStat == 1

\* ------------------------------------------------------------- constants

InitLands == 29
InitNonlands == 31
\* Mutant: steps of two
change_size_two == 1 + 1

change_size == 1
\* Mutant: four samples are asked for
MinSamplesFour == 3 + 1

MinSamples == 3
\* 0.01, in hundredths of a turn
Epsilon == 1

\* The commands of the console: s, t, g, d, r, q
StepCommand == {"StepPhase", "StepTurn", "RunGame", "RunDeck", "RunAll", "Quit"}

\* The values try_scenario may return, in hundredths of a turn: 10.00, 10.02, ...
Results == {1000 + 2 * k : k \in 0..MaxResult}

NoConfig == <<>>

\* ----------------------------------------------------------- pure helpers

\* The two neighbours of (l, n). The counts are u32 in the program; here they are
\* unbounded integers, so a subtraction that would underflow shows as a negative count
\* Mutant: a step of two
MoreLandsStepsTwice(l, n) == <<l + 2 * change_size, n - 2 * change_size>>

MoreLands(l, n) == <<l + change_size, n - change_size>>

\* Mutant: the nonland count is not raised when a land is taken out
MoreNonlandsKeepsNonlands(l, n) == <<l - change_size, n>>

MoreNonlands(l, n) == <<l - change_size, n + change_size>>

\* Mutant: insert instead of push, the new value replaces the list
PushOverwrites(h, k, r) == [x \in DOMAIN h \cup {k} |-> IF x = k THEN <<r>> ELSE h[x]]

\* result_history.entry(k).or_insert_with(Vec::new).push(r)
Push(h, k, r) ==
    IF k \in DOMAIN h
    THEN [h EXCEPT ![k] = Append(@, r)]
    ELSE h @@ (k :> <<r>>)

\* Mutant: the third result is not tracked
TrackDropsLast(h, l, n, rs) == Push(Push(h, <<l, n>>, rs[1]), MoreLands(l, n), rs[2])

\* The three pushes of one iteration, in the code's order
Track(h, l, n, rs) ==
    Push(Push(Push(h, <<l, n>>, rs[1]), MoreLands(l, n), rs[2]), MoreNonlands(l, n), rs[3])

RECURSIVE SumTo(_, _)
SumTo(s, n) == IF n = 0 THEN 0 ELSE SumTo(s, n - 1) + s[n]

\* results.iter().sum::<f64>()
Sum(s) == SumTo(s, Len(s))

\* Mutant: the latest value stands for the mean
AvgIsLatest(s) == [num |-> s[Len(s)], den |-> 1]

\* results.iter().sum::<f64>() / results.len() as f64, as an exact fraction
Avg(s) == [num |-> Sum(s), den |-> Len(s)]

\* f64::INFINITY
Infinity == [num |-> 1, den |-> 0]

\* a.min(b) on fractions
RatMin(a, b) ==
    IF a.den = 0 THEN b
    ELSE IF b.den = 0 THEN a
    ELSE IF a.num * b.den <= b.num * a.den THEN a ELSE b

Abs(x) == IF x < 0 THEN 0 - x ELSE x

\* (avg - min_avg).abs() < 0.01
WithinEpsilon(avg, min_avg) ==
    Abs(avg.num * min_avg.den - min_avg.num * avg.den) < Epsilon * avg.den * min_avg.den

\* Mutant: two runs are taken for enough
SampledFromTwoRuns(h) == {k \in DOMAIN h : Len(h[k]) >= MinSamples - 1}

\* The keys with 3+ runs
Sampled(h) == {k \in DOMAIN h : Len(h[k]) >= MinSamples}

\* The orders in which the HashMap may enumerate a set of keys
Orderings(S) ==
    {s \in [1..Cardinality(S) -> S] : \A i, j \in 1..Cardinality(S) : i # j => s[i] # s[j]}

\* The candidates vector built from one enumeration of the map
Candidates(h, order) == [i \in 1..Len(order) |-> <<order[i][1], order[i][2], Avg(h[order[i]])>>]

RECURSIVE MinAvgFrom(_, _)
MinAvgFrom(cands, acc) ==
    IF cands = <<>> THEN acc ELSE MinAvgFrom(Tail(cands), RatMin(acc, Head(cands)[3]))

\* candidates.iter().map(avg).fold(INFINITY, min)
MinAvg(cands) == MinAvgFrom(cands, Infinity)

IsTied(c, min_avg) == WithinEpsilon(c[3], min_avg)

\* candidates.iter().filter(|avg - min_avg| < 0.01).collect()
TiedCandidates(cands) == LET m == MinAvg(cands) IN SelectSeq(cands, LAMBDA c : IsTied(c, m))

\* result0.min(result1).min(result2)
SmallestTurnsToDeath(rs) ==
    LET m01 == IF rs[1] <= rs[2] THEN rs[1] ELSE rs[2]
    IN  IF m01 <= rs[3] THEN m01 ELSE rs[3]

\* Mutant: the two neighbours are tested before the current configuration
BestConfigPrefersNeighbours(l, n, rs) ==
    IF rs[2] = SmallestTurnsToDeath(rs) THEN MoreLands(l, n)
    ELSE IF rs[3] = SmallestTurnsToDeath(rs) THEN MoreNonlands(l, n)
    ELSE <<l, n>>

\* (best_lands, best_nonlands)
BestConfig(l, n, rs) ==
    IF rs[1] = SmallestTurnsToDeath(rs) THEN <<l, n>>
    ELSE IF rs[2] = SmallestTurnsToDeath(rs) THEN MoreLands(l, n)
    ELSE MoreNonlands(l, n)

\* Mutant: max_by instead of min_by
TiebreakerWinnerIsHighest(tb) ==
    LET i == CHOOSE i \in 1..Len(tb) : \A j \in 1..Len(tb) : tb[i][3] >= tb[j][3]
    IN  tb[i]

\* tiebreaker_results.iter().min_by(partial_cmp): the first of the least elements
TiebreakerWinner(tb) ==
    LET i == CHOOSE i \in 1..Len(tb) :
                 /\ \A j \in 1..Len(tb) : tb[i][3] <= tb[j][3]
                 /\ \A j \in 1..(i - 1) : tb[j][3] > tb[i][3]
    IN  tb[i]

\* Mutant: the console is read in RunAll too
ReadsConsoleInRunAll(m) == m \in {"RunDeck", "RunAll"}

\* The console is read after a call that leaves RunDeck, and then only
ReadsConsole(m) == m = "RunDeck"

\* The step mode main holds after a try_scenario call that left mode m:
\* in RunDeck the console is read and the command c replaces it
AfterCall(m, c) == IF ReadsConsole(m) THEN c ELSE m

\* main compares step_mode with Quit and with RunDeck only: the state keeps these
\* two as they are and the four other commands, which main treats alike, as RunAll
Observed(m) == IF m \in {"Quit", "RunDeck"} THEN m ELSE "RunAll"

\* Every step mode main may hold after a call: try_scenario may leave any mode,
\* and the console may give any command
ModesAfterCall == {Observed(AfterCall(m, c)) : m \in StepCommand, c \in StepCommand}

\* The command read before the loop
ModesAtStart == {Observed(c) : c \in StepCommand}

\* A call and what follows it: the mode try_scenario left, whether the console was
\* read, and the mode main holds afterwards
CallOutcomes ==
    {[left |-> Observed(m), read |-> ReadsConsole(m), mode |-> Observed(AfterCall(m, c))] :
        m \in StepCommand, c \in StepCommand}

\* The trace of the console: the mode the last call left ("none" after a step
\* without a call) and whether the last step read the console. It is kept in the
\* behaviours of SpecConsole only
NotTraced == [traced |-> FALSE, left |-> "none", read |-> FALSE]

\* The console was read once, before the loop
ReadAtStart == [traced |-> TRUE, left |-> "none", read |-> TRUE]

\* The trace after a call that ends with main holding mode
ConsoleAfter(mode) ==
    IF console.traced
    THEN {[traced |-> TRUE, left |-> o.left, read |-> o.read] :
             o \in {x \in CallOutcomes : x.mode = mode}}
    ELSE {console}

\* The trace after a step without a call
NoCall == [console EXCEPT !.left = "none", !.read = FALSE]

\* ------------------------------------------------- cards (creature.rs)

\* The category tags of a card
CardType == {"Creature", "Land", "Spell"}

\* The capability kinds: Creature, and one kind standing for every other
CardFragmentKind == {"Creature", "Other"}

CreatureStats == [power : 0..MaxStat, toughness : 0..MaxStat]

\* The payloads: Box<dyn Fragment>, with the concrete type kept for the downcasts
CreatureFragment ==
    [type : {"CreatureFragment"}, stats : CreatureStats, summoning_sickness : BOOLEAN]

OtherFragment == [type |-> "OtherFragment"]

\* Option<T>: <<>> is None, <<x>> is Some(x)
None == <<>>
Some(x) == <<x>>

\* HashMap::insert, HashMap::remove and HashMap::get
Insert(f, k, v) == [x \in (DOMAIN f) \cup {k} |-> IF x = k THEN v ELSE f[x]]
Remove(f, k) == [x \in (DOMAIN f) \ {k} |-> f[x]]
Get(f, k) == IF k \in DOMAIN f THEN Some(f[k]) ELSE None

\* f.as_any().downcast_ref::<CreatureFragment>()
Downcast(f) == IF f.type = "CreatureFragment" THEN Some(f) ELSE None

\* The fragment maps: at most one payload per kind, a CreatureFragment under Creature
FragmentMaps ==
    UNION { { f \in [D -> CreatureFragment \cup {OtherFragment}] :
                 \A k \in D : (f[k].type = "CreatureFragment") <=> (k = "Creature") }
            : D \in SUBSET CardFragmentKind }

Card == [card_types : SUBSET CardType, fragments : FragmentMaps]

is_creature(c) == "Creature" \in c.card_types \/ "Creature" \in DOMAIN c.fragments

creature_stats(c) ==
    LET f == Get(c.fragments, "Creature")
    IN  IF f = None THEN None
        ELSE LET cf == Downcast(f[1])
             IN  IF cf = None THEN None ELSE Some(cf[1].stats)

\* Mutant: a payload already there keeps its summoning sickness
add_creature_fragment_keeps_sickness(c, power, toughness) ==
    [c EXCEPT !.fragments =
        Insert(@, "Creature",
               [type |-> "CreatureFragment",
                stats |-> [power |-> power, toughness |-> toughness],
                summoning_sickness |->
                    IF "Creature" \in DOMAIN @ THEN @["Creature"].summoning_sickness
                    ELSE FALSE])]

add_creature_fragment(c, power, toughness) ==
    [c EXCEPT !.fragments =
        Insert(@, "Creature",
               [type |-> "CreatureFragment",
                stats |-> [power |-> power, toughness |-> toughness],
                summoning_sickness |-> FALSE])]

\* Mutant: every fragment is removed
remove_creature_fragment_clears(c) == [c EXCEPT !.fragments = <<>>]

remove_creature_fragment(c) == [c EXCEPT !.fragments = Remove(@, "Creature")]

\* Mutant: the payload is built anew, with stats of zero
set_summoning_sickness_resets_stats(c, value) ==
    LET f == Get(c.fragments, "Creature")
    IN  IF f = None THEN c
        ELSE [c EXCEPT !.fragments =
                 Insert(@, "Creature",
                        [type |-> "CreatureFragment",
                         stats |-> [power |-> 0, toughness |-> 0],
                         summoning_sickness |-> value])]

set_summoning_sickness(c, value) ==
    LET f == Get(c.fragments, "Creature")
    IN  IF f = None THEN c
        ELSE IF Downcast(f[1]) = None THEN c
        ELSE [c EXCEPT !.fragments =
                 Insert(@, "Creature", [f[1] EXCEPT !.summoning_sickness = value])]

\* Mutant: unwrap_or(true)
has_summoning_sickness_by_default(c) ==
    LET f == Get(c.fragments, "Creature")
    IN  IF f = None THEN TRUE ELSE f[1].summoning_sickness

has_summoning_sickness(c) ==
    LET f == Get(c.fragments, "Creature")
    IN  IF f = None THEN FALSE
        ELSE LET cf == Downcast(f[1])
             IN  IF cf = None THEN FALSE ELSE cf[1].summoning_sickness

\* The card that main holds: none of its own, an empty one here
NoCard == [card_types |-> {}, fragments |-> <<>>]

\* No call of creature.rs yet
NoOp == [name |-> "none", args |-> <<>>, result |-> <<>>, before |-> NoCard]

\* ------------------------------------------------------------------ state

InitLoop ==
    /\ pc = "loop"
    /\ current_lands = InitLands
    /\ current_nonlands = InitNonlands
    /\ step_mode \in ModesAtStart
    /\ result_history = <<>>
    /\ iteration = 1
    /\ results = <<>>
    /\ tied_candidates = <<>>
    /\ tiebreaker_results = <<>>
    /\ optimal = NoConfig
    /\ calls = <<>>

Init ==
    /\ InitLoop
    /\ console = NotTraced
    /\ card = NoCard
    /\ op = NoOp

\* ---------------------------------------------------------------- actions

\* The Quit check at the top of the loop
QuitAtTop ==
    /\ pc = "loop"
    /\ step_mode = "Quit"
    /\ pc' = "done"
    /\ console' = NoCall
    /\ UNCHANGED <<current_lands, current_nonlands, step_mode, result_history, iteration,
                   results, tied_candidates, tiebreaker_results, optimal, calls, card, op>>

\* Mutant: the result is tracked as soon as its call returns
EvaluateTracksAtOnce(at, cfg, next) ==
    /\ pc = at
    /\ \E r \in Results, mode \in ModesAfterCall :
          /\ results' = Append(results, r)
          /\ calls' = Append(calls, [cfg |-> cfg, res |-> r])
          /\ result_history' = Push(result_history, cfg, r)
          /\ step_mode' = mode
          /\ console' \in ConsoleAfter(mode)
          /\ pc' = IF mode = "Quit" THEN "done" ELSE next
    /\ UNCHANGED <<current_lands, current_nonlands, iteration,
                   tied_candidates, tiebreaker_results, optimal, card, op>>

\* One neighbour evaluation: the try_scenario call for cfg, the read of the console
\* when the call leaves RunDeck, and the Quit check after it
Evaluate(at, cfg, next) ==
    /\ pc = at
    /\ \E r \in Results, mode \in ModesAfterCall :
          /\ results' = Append(results, r)
          /\ calls' = Append(calls, [cfg |-> cfg, res |-> r])
          /\ step_mode' = mode
          /\ console' \in ConsoleAfter(mode)
          /\ pc' = IF mode = "Quit" THEN "done" ELSE next
    /\ UNCHANGED <<current_lands, current_nonlands, result_history, iteration,
                   tied_candidates, tiebreaker_results, optimal, card, op>>

Eval0 ==
    /\ step_mode # "Quit"
    /\ Evaluate("loop", <<current_lands, current_nonlands>>, "eval1")

\* Mutant: the Quit check after the second scenario is missing
Eval1WithoutQuitCheck ==
    /\ pc = "eval1"
    /\ \E r \in Results, mode \in ModesAfterCall :
          /\ results' = Append(results, r)
          /\ calls' = Append(calls, [cfg |-> MoreLands(current_lands, current_nonlands),
                                     res |-> r])
          /\ step_mode' = mode
          /\ console' \in ConsoleAfter(mode)
          /\ pc' = "eval2"
    /\ UNCHANGED <<current_lands, current_nonlands, result_history, iteration,
                   tied_candidates, tiebreaker_results, optimal, card, op>>

Eval1 == Evaluate("eval1", MoreLands(current_lands, current_nonlands), "eval2")

Eval2 == Evaluate("eval2", MoreNonlands(current_lands, current_nonlands), "decide")

\* Mutant: a single candidate goes through the tie-break too
DecisionAlwaysBreaksTies(h, tied) == IF Sampled(h) = {} THEN "move" ELSE "tiebreak"

\* What the loop does once the three results are tracked in h:
\* "move" while no configuration has 3+ runs, "clear" for a single tied candidate,
\* "tiebreak" otherwise
Decision(h, tied) ==
    IF Sampled(h) = {} THEN "move"
    ELSE IF Len(tied) = 1 THEN "clear"
    ELSE "tiebreak"

\* The rest of an iteration whose three scenarios completed: track the results,
\* then move to the best of the three, declare the clear winner, or start the
\* tie-break over the tied candidates
Decide ==
    /\ pc = "decide"
    /\ LET h == Track(result_history, current_lands, current_nonlands, results)
           best == BestConfig(current_lands, current_nonlands, results)
       IN  /\ result_history' = h
           /\ \E order \in Orderings(Sampled(h)) :
                 LET tied == TiedCandidates(Candidates(h, order))
                     d == Decision(h, tied)
                 IN  /\ tied_candidates' = tied
                     /\ current_lands' = IF d = "move" THEN best[1] ELSE current_lands
                     /\ current_nonlands' = IF d = "move" THEN best[2] ELSE current_nonlands
                     /\ iteration' = IF d = "move" THEN iteration + 1 ELSE iteration
                     /\ results' = IF d = "move" THEN <<>> ELSE results
                     /\ optimal' = IF d = "clear" THEN <<tied[1][1], tied[1][2]>> ELSE optimal
                     /\ pc' = CASE d = "move" -> "loop"
                                [] d = "clear" -> "done"
                                [] OTHER -> "tiebreak"
    /\ console' = NoCall
    /\ UNCHANGED <<step_mode, tiebreaker_results, calls, card, op>>

\* One pass of the tie-break loop: the extra run of the next tied candidate, the
\* read of the console in RunDeck and the Quit check; after the last pass, the
\* winner is declared
TieBreakRun ==
    /\ pc = "tiebreak"
    /\ Len(tiebreaker_results) < Len(tied_candidates)
    /\ LET c == tied_candidates[Len(tiebreaker_results) + 1]
       IN  \E r \in Results, mode \in ModesAfterCall :
              LET tb == Append(tiebreaker_results, <<c[1], c[2], r>>)
                  w == TiebreakerWinner(tb)
              IN  /\ calls' = Append(calls, [cfg |-> <<c[1], c[2]>>, res |-> r])
                  /\ step_mode' = mode
                  /\ console' \in ConsoleAfter(mode)
                  /\ tiebreaker_results' = IF mode = "Quit" THEN tiebreaker_results ELSE tb
                  /\ pc' = IF mode # "Quit" /\ Len(tb) < Len(tied_candidates)
                           THEN "tiebreak"
                           ELSE "done"
                  /\ optimal' = IF mode # "Quit" /\ Len(tb) = Len(tied_candidates)
                                THEN <<w[1], w[2]>>
                                ELSE optimal
    /\ UNCHANGED <<current_lands, current_nonlands, result_history, iteration, results,
                   tied_candidates, card, op>>

Next == QuitAtTop \/ Eval0 \/ Eval1 \/ Eval2 \/ Decide \/ TieBreakRun

Spec == Init /\ [][Next]_vars

\* The same loop with the console traced
InitConsole ==
    /\ InitLoop
    /\ console = ReadAtStart
    /\ card = NoCard
    /\ op = NoOp

SpecConsole == InitConsole /\ [][Next]_vars

\* ------------------------------------------- the functions of creature.rs

\* Any card, and main at rest
InitCard ==
    /\ card \in Card
    /\ op = NoOp
    /\ console = NotTraced
    /\ pc = "done"
    /\ current_lands = InitLands
    /\ current_nonlands = InitNonlands
    /\ step_mode = "Quit"
    /\ result_history = <<>>
    /\ iteration = 1
    /\ results = <<>>
    /\ tied_candidates = <<>>
    /\ tiebreaker_results = <<>>
    /\ optimal = NoConfig
    /\ calls = <<>>

CallIsCreature ==
    /\ op' = [name |-> "is_creature", args |-> <<>>, result |-> <<is_creature(card)>>,
              before |-> card]
    /\ UNCHANGED <<card, console, loopVars>>

CallCreatureStats ==
    /\ op' = [name |-> "creature_stats", args |-> <<>>, result |-> <<creature_stats(card)>>,
              before |-> card]
    /\ UNCHANGED <<card, console, loopVars>>

CallAddCreatureFragment ==
    /\ \E power \in 0..MaxStat, toughness \in 0..MaxStat :
          /\ card' = add_creature_fragment(card, power, toughness)
          /\ op' = [name |-> "add_creature_fragment", args |-> <<power, toughness>>,
                    result |-> <<>>, before |-> card]
    /\ UNCHANGED <<console, loopVars>>

CallRemoveCreatureFragment ==
    /\ card' = remove_creature_fragment(card)
    /\ op' = [name |-> "remove_creature_fragment", args |-> <<>>, result |-> <<>>,
              before |-> card]
    /\ UNCHANGED <<console, loopVars>>

CallSetSummoningSickness ==
    /\ \E value \in BOOLEAN :
          /\ card' = set_summoning_sickness(card, value)
          /\ op' = [name |-> "set_summoning_sickness", args |-> <<value>>, result |-> <<>>,
                    before |-> card]
    /\ UNCHANGED <<console, loopVars>>

CallHasSummoningSickness ==
    /\ op' = [name |-> "has_summoning_sickness", args |-> <<>>,
              result |-> <<has_summoning_sickness(card)>>, before |-> card]
    /\ UNCHANGED <<card, console, loopVars>>

NextCard ==
    \/ CallIsCreature
    \/ CallCreatureStats
    \/ CallAddCreatureFragment
    \/ CallRemoveCreatureFragment
    \/ CallSetSummoningSickness
    \/ CallHasSummoningSickness

SpecCard == InitCard /\ [][NextCard]_vars

\* ------------------------------------------------------ claims' vocabulary

Total == InitLands + InitNonlands

IsPrefix(s, t) == Len(s) <= Len(t) /\ \A i \in 1..Len(s) : s[i] = t[i]

\* The iterations whose three results were tracked
CompletedIterations ==
    IF pc = "tiebreak" \/ (pc = "done" /\ tied_candidates # <<>>)
    THEN iteration
    ELSE iteration - 1

\* The calls made for neighbours (the others are tie-break runs)
NumNeighbourCalls == IF Len(calls) <= 3 * iteration THEN Len(calls) ELSE 3 * iteration

\* The call after which main saw Quit
Aborted(i) == i = Len(calls) /\ step_mode = "Quit"

CallConfigs == [i \in 1..Len(calls) |-> calls[i].cfg]

\* C1: every complete triple of neighbour calls is (L, N), (L+1, N-1), (L-1, N+1)
\* around the current configuration, and every configuration called or recorded
\* has 60 cards
C1_ThreeNeighboursOfSixty ==
    /\ \A i \in 1..Len(calls) : calls[i].cfg[1] + calls[i].cfg[2] = 60
    /\ \A k \in DOMAIN result_history : k[1] + k[2] = 60
    /\ Total = 60
    /\ \A j \in 1..iteration :
          3 * j <= NumNeighbourCalls =>
             LET c == calls[3 * j - 2].cfg
             IN  /\ calls[3 * j - 1].cfg = <<c[1] + 1, c[2] - 1>>
                 /\ calls[3 * j].cfg = <<c[1] - 1, c[2] + 1>>
    /\ pc = "decide" =>
          /\ Len(calls) = 3 * iteration
          /\ calls[Len(calls) - 2].cfg = <<current_lands, current_nonlands>>

C1_Witness ==
    /\ pc = "done"
    /\ optimal # NoConfig
    /\ Len(calls) = 11

\* C2: a step leaves every key in the history and every list a prefix of the new
\* list, which is at most one value longer
C2_AppendOnly ==
    [][\A k \in DOMAIN result_history :
          /\ k \in DOMAIN result_history'
          /\ IsPrefix(result_history[k], result_history'[k])
          /\ Len(result_history'[k]) <= Len(result_history[k]) + 1]_vars

C2_Witness == \E k \in DOMAIN result_history : Len(result_history[k]) = 3

\* C3 as stated: when the loop is between iterations or over, every neighbour
\* call that returned without Quit has its result in the history of its configuration
C3_EveryReturnedResultRecorded ==
    pc \in {"loop", "tiebreak", "done"} =>
       \A i \in 1..NumNeighbourCalls :
          ~Aborted(i) =>
             /\ calls[i].cfg \in DOMAIN result_history
             /\ \E p \in 1..Len(result_history[calls[i].cfg]) :
                   result_history[calls[i].cfg][p] = calls[i].res

\* C3 amended: the history of each configuration is the list of the results of its
\* visits in the iterations whose three scenarios completed without Quit, in the
\* order of the visits; the results of an iteration cut short by Quit are not in it
C3_CompletedIterationsRecorded ==
    LET completed == SubSeq(calls, 1, 3 * CompletedIterations)
    IN  /\ \A i \in 1..Len(completed) : completed[i].cfg \in DOMAIN result_history
        /\ \A k \in DOMAIN result_history :
              LET visits == SelectSeq(completed, LAMBDA c : c.cfg = k)
              IN  result_history[k] = [j \in 1..Len(visits) |-> visits[j].res]

C3_Witness ==
    /\ pc = "done"
    /\ step_mode = "Quit"
    /\ iteration = 2
    /\ Len(calls) = 5

\* C4: iteration 1 calls (29,31), (30,30), (28,32) and leaves exactly these three
\* keys with one entry each
C4_FirstIteration ==
    /\ (iteration = 1 /\ pc \in {"loop", "eval1", "eval2", "decide"}) =>
          /\ result_history = <<>>
          /\ IsPrefix(CallConfigs, <<(<<29, 31>>), (<<30, 30>>), (<<28, 32>>)>>)
    /\ (iteration = 2 /\ pc = "loop") =>
          /\ CallConfigs = <<(<<29, 31>>), (<<30, 30>>), (<<28, 32>>)>>
          /\ DOMAIN result_history = {<<29, 31>>, <<30, 30>>, <<28, 32>>}
          /\ \A k \in DOMAIN result_history : Len(result_history[k]) = 1

C4_Witness == iteration = 2 /\ pc = "loop"

\* The configurations with 3 or more samples in h whose mean is less than 0.01
\* above the mean of every configuration with 3 or more samples (sums and lengths
\* in hundredths of a turn, compared without division)
EnoughSamples(h) == {k \in DOMAIN h : Len(h[k]) >= 3}

NearMinimum(h) ==
    {k \in EnoughSamples(h) :
        \A d \in EnoughSamples(h) :
           Sum(h[k]) * Len(h[d]) - Sum(h[d]) * Len(h[k]) < Len(h[k]) * Len(h[d])}

TiedConfigs == {<<tied_candidates[i][1], tied_candidates[i][2]>> : i \in 1..Len(tied_candidates)}

\* The tie-break runs: the calls after those of the neighbours
TieBreakCalls == SubSeq(calls, NumNeighbourCalls + 1, Len(calls))

RECURSIVE EntriesOf(_, _)
EntriesOf(h, keys) ==
    IF keys = {} THEN 0
    ELSE LET k == CHOOSE k \in keys : TRUE IN Len(h[k]) + EntriesOf(h, keys \ {k})

\* The number of values the history holds
HistoryEntries(h) == EntriesOf(h, DOMAIN h)

\* C5: a Decide step that leaves no configuration with 3 samples starts the next
\* iteration at the lowest of the three results, the current configuration first,
\* then (L+1, N-1), then (L-1, N+1)
C5_GreedyStep ==
    [][(pc = "decide" /\ \A k \in DOMAIN result_history' : Len(result_history'[k]) < 3) =>
          /\ pc' = "loop"
          /\ iteration' = iteration + 1
          /\ optimal' = NoConfig
          /\ <<current_lands', current_nonlands'>> =
                IF results[1] <= results[2] /\ results[1] <= results[3]
                THEN <<current_lands, current_nonlands>>
                ELSE IF results[2] <= results[3]
                THEN <<current_lands + 1, current_nonlands - 1>>
                ELSE <<current_lands - 1, current_nonlands + 1>>]_vars

C5_Witness == pc = "loop" /\ iteration = 3 /\ current_lands = 27

\* C6: an optimum is declared only when some configuration has 3 samples, and
\* the declared configuration has 3 samples itself
C6_SampleGate ==
    optimal # NoConfig =>
       /\ \E k \in DOMAIN result_history : Len(result_history[k]) >= 3
       /\ optimal \in DOMAIN result_history
       /\ Len(result_history[optimal]) >= 3

C6_Witness ==
    /\ optimal # NoConfig
    /\ tiebreaker_results # <<>>
    /\ \E k \in DOMAIN result_history : Len(result_history[k]) < 3

\* C7: the decision at the end of an iteration takes for each candidate's mean the
\* sum of its whole list over its length, and for the tied candidates exactly the
\* configurations with 3 samples whose mean is less than 0.01 above the least
\* such mean; no later step changes them
C7_MeanAndTolerance ==
    [][IF pc = "decide"
       THEN /\ TiedConfigs' = NearMinimum(result_history')
            /\ Cardinality(TiedConfigs') = Len(tied_candidates')
            /\ \A i \in 1..Len(tied_candidates') :
                  LET t == tied_candidates'[i]
                      list == result_history'[<<t[1], t[2]>>]
                  IN  t[3].num * Len(list) = Sum(list) * t[3].den
       ELSE /\ tied_candidates' = tied_candidates
            /\ result_history' = result_history]_vars

\* two tied means that differ, and a third configuration with 3 samples left out
C7_Witness ==
    /\ Len(tied_candidates) = 2
    /\ tied_candidates[1][3].num # tied_candidates[2][3].num
    /\ Cardinality(EnoughSamples(result_history)) = 3

\* C8: a Decide step that leaves exactly one configuration near the minimum
\* declares it, ends the loop at once, makes no call and moves nowhere; nothing
\* happens after the loop has ended
C8_ClearWinner ==
    [][/\ (pc = "decide" /\ Cardinality(NearMinimum(result_history')) = 1) =>
             /\ pc' = "done"
             /\ optimal' \in NearMinimum(result_history')
             /\ calls' = calls
             /\ iteration' = iteration
             /\ <<current_lands', current_nonlands'>> = <<current_lands, current_nonlands>>
       /\ pc = "done" => calls' = calls]_vars

C8_Witness ==
    /\ pc = "done"
    /\ optimal # NoConfig
    /\ tiebreaker_results = <<>>
    /\ Cardinality(EnoughSamples(result_history)) = 2
    /\ Len(calls) = 9

\* One extra run was made for each tied configuration and for no other
TieBreakComplete ==
    /\ Len(TieBreakCalls) = Len(tied_candidates)
    /\ Cardinality(TiedConfigs) = Len(tied_candidates)
    /\ {TieBreakCalls[i].cfg : i \in 1..Len(TieBreakCalls)} = TiedConfigs

\* The declared configuration is a tied one whose extra run is the lowest
WinnerHasLowestExtraRun ==
    /\ optimal \in TiedConfigs
    /\ \E i \in 1..Len(TieBreakCalls) :
          /\ TieBreakCalls[i].cfg = optimal
          /\ \A j \in 1..Len(TieBreakCalls) : TieBreakCalls[i].res <= TieBreakCalls[j].res

\* C9 as stated: whenever the loop has ended after a tie of two or more, every tied
\* configuration had its extra run, the lowest was declared, and the history was
\* left alone
C9_TieBreakAlwaysCompletes ==
    (pc = "done" /\ Len(tied_candidates) >= 2) =>
       /\ TieBreakComplete
       /\ WinnerHasLowestExtraRun
       /\ HistoryEntries(result_history) = 3 * iteration

\* C9 amended: after a tie of two or more the extra runs go through the tied
\* configurations one by one and the history is left alone; if no Quit is seen
\* every tied configuration gets its run and the lowest is declared, and a
\* Quit seen after a run ends the loop with nothing declared
C9_TieBreakUnlessQuit ==
    Len(tied_candidates) >= 2 =>
       LET extra == TieBreakCalls
       IN  /\ pc \in {"tiebreak", "done"}
           /\ HistoryEntries(result_history) = 3 * iteration
           /\ Len(extra) <= Len(tied_candidates)
           /\ \A i \in 1..Len(extra) :
                 extra[i].cfg = <<tied_candidates[i][1], tied_candidates[i][2]>>
           /\ (pc = "done" /\ step_mode # "Quit") =>
                 TieBreakComplete /\ WinnerHasLowestExtraRun
           /\ (pc = "done" /\ step_mode = "Quit") => optimal = NoConfig
           /\ pc = "tiebreak" => optimal = NoConfig /\ Len(extra) < Len(tied_candidates)

\* a tie-break of three whose winner ran second
C9_Witness ==
    /\ pc = "done"
    /\ Len(tied_candidates) = 3
    /\ optimal = <<tied_candidates[2][1], tied_candidates[2][2]>>
    /\ tiebreaker_results[1][3] > tiebreaker_results[2][3]

\* C10: a step that leaves the step mode at Quit ends the loop with nothing
\* appended, moved or declared, and no step follows a state whose mode is Quit
\* other than the exit at the top of the loop
C10_Cancellation ==
    [][/\ step_mode' = "Quit" =>
             /\ pc' = "done"
             /\ optimal = NoConfig /\ optimal' = NoConfig
             /\ result_history' = result_history
             /\ tiebreaker_results' = tiebreaker_results
             /\ iteration' = iteration
             /\ <<current_lands', current_nonlands'>> = <<current_lands, current_nonlands>>
       /\ step_mode = "Quit" => calls' = calls /\ pc' = "done"]_vars

\* Quit seen after the second run of a tie-break
C10_Witness ==
    /\ pc = "done"
    /\ step_mode = "Quit"
    /\ Len(tiebreaker_results) = 1
    /\ Len(calls) = 11

\* C16: the console is read before the loop and then only right after a call that
\* left RunDeck, and after every such call; a call that leaves RunAll is followed
\* by no read and the loop goes on in RunAll; Quit is seen only before the loop,
\* after a read, or when a call left it, and the loop ends without Quit only with
\* the optimum declared. So a run that starts in RunAll and whose calls all leave
\* RunAll never reads again and runs on to the declaration of the optimum
C16_ConsoleOnlyAfterRunDeck ==
    /\ console.read <=> (console.left = "RunDeck" \/ (calls = <<>> /\ pc = "loop"))
    /\ console.left = "RunAll" => (~console.read /\ step_mode = "RunAll" /\ calls # <<>>)
    /\ (step_mode = "Quit" /\ calls # <<>>) => console.left \in {"Quit", "RunDeck"}
    /\ (pc = "done" /\ step_mode # "Quit") => optimal # NoConfig

\* The last run of a tie-break left RunAll: no read, and the optimum is declared
C16_Witness ==
    /\ console.left = "RunAll"
    /\ ~console.read
    /\ pc = "done"
    /\ optimal # NoConfig
    /\ Len(tiebreaker_results) >= 2

\* How far main has come: every step of the loop takes it further
Progress ==
    3 * Len(calls) + 3 * iteration
        + (CASE pc = "done" -> 2 [] pc = "tiebreak" -> 1 [] OTHER -> 0)

\* Three iterations of three calls and a tie-break over all five configurations
\* they can have sampled
MaxProgress == 3 * (9 + 5) + 3 * 3 + 2

\* Main has a step to take: the guards of the actions
CanStep ==
    \/ pc \in {"loop", "eval1", "eval2", "decide"}
    \/ pc = "tiebreak" /\ Len(tiebreaker_results) < Len(tied_candidates)

\* C17: when every call returns the loop ends (every step takes main further
\* towards a bound, and main has a next step until it is done), and when Quit is
\* never seen it ends in its third iteration with the optimum declared, after 9
\* neighbour calls and one call for each tie-break run; no optimum is declared in
\* iteration 1 or 2 and there is no fourth iteration
C17_EndsInThirdIteration ==
    [][/\ Progress' > Progress
       /\ Progress' <= MaxProgress
       /\ pc' # "done" => CanStep'
       /\ iteration' \in 1..3
       /\ optimal' # NoConfig => (iteration' = 3 /\ pc' = "done")
       /\ (pc' = "done" /\ step_mode' # "Quit") =>
             /\ optimal' # NoConfig
             /\ iteration' = 3
             /\ Len(calls') = 9 + Len(tiebreaker_results')]_vars

\* The loop ended without Quit, after a tie-break
C17_Witness ==
    /\ pc = "done"
    /\ step_mode # "Quit"
    /\ iteration = 3
    /\ Len(calls) > 9

\* C18: the current land count stays within 29 +/- 2, and every configuration
\* passed to try_scenario has between 26 and 32 lands and between 28 and 34
\* nonlands, so no count ever goes below zero
C18_SearchRange ==
    [][/\ current_lands' \in (29 - 2)..(29 + 2)
       /\ Len(calls') > Len(calls) =>
             LET cfg == calls'[Len(calls')].cfg
             IN  /\ cfg[1] \in 26..32
                 /\ cfg[2] \in 28..34
                 /\ cfg[1] >= 0 /\ cfg[2] >= 0]_vars

\* The search went two steps up and called try_scenario with 32 lands
C18_Witness ==
    /\ current_lands = 31
    /\ calls # <<>>
    /\ calls[Len(calls)].cfg = <<32, 28>>

\* C19: the history grows by three entries at once, in the step that follows the
\* third scenario of an iteration; no other step touches it, so between
\* iterations it holds three entries for each completed iteration, and after an
\* iteration that Quit cut short it is as it was when that iteration began
C19_AtomicHistoryUpdate ==
    [][/\ IF pc = "decide"
          THEN /\ Len(results) = 3
               /\ step_mode # "Quit"
               /\ HistoryEntries(result_history') = HistoryEntries(result_history) + 3
          ELSE result_history' = result_history
       /\ pc' \in {"loop", "eval1", "eval2", "decide"} =>
             HistoryEntries(result_history') = 3 * (iteration' - 1)
       /\ (pc' = "done" /\ step_mode' = "Quit") =>
             HistoryEntries(result_history') = 3 * CompletedIterations']_vars

\* Quit cut the second iteration short after two of its scenarios
C19_Witness ==
    /\ pc = "done"
    /\ step_mode = "Quit"
    /\ iteration = 2
    /\ Len(calls) = 5
    /\ HistoryEntries(result_history) = 3

\* The extra runs of the tie-break as a set: one value for each tied configuration
ExtraRuns == {tiebreaker_results[i] : i \in 1..Len(tiebreaker_results)}

\* C20: the optimum that a tie-break declares depends on the values obtained for
\* the tied configurations only, not on the order in which the history map
\* enumerated them: had the same extra runs been made in any other order, the
\* same configuration would have been declared, equal extra-run values included
C20_OrderIndependentOptimum ==
    (pc = "done" /\ optimal # NoConfig /\ tiebreaker_results # <<>>) =>
        \A order \in Orderings(ExtraRuns) :
            LET w == TiebreakerWinner(order)
            IN  <<w[1], w[2]>> = optimal

\* ------------------------------------------ claims about creature.rs

\* The two signals of "is a creature"
TagPresent(c) == "Creature" \in c.card_types
CapabilityPresent(c) == "Creature" \in DOMAIN c.fragments
SignalsAgree(c) == TagPresent(c) <=> CapabilityPresent(c)

Mutators == {"add_creature_fragment", "remove_creature_fragment", "set_summoning_sickness"}
Queries == {"is_creature", "creature_stats", "has_summoning_sickness"}

\* The fragments of the kinds other than Creature
OtherFragments(c) == Remove(c.fragments, "Creature")

\* C11: is_creature is true exactly when the Creature tag or the Creature capability
\* is there, and a card whose tag and capability agree before a call of
\* add_creature_fragment, remove_creature_fragment or set_summoning_sickness has
\* them agree after it
C11_SignalsNeverDiverge ==
    /\ is_creature(card) <=> (TagPresent(card) \/ CapabilityPresent(card))
    /\ (op.name \in Mutators /\ SignalsAgree(op.before)) => SignalsAgree(card)

\* C12: after add_creature_fragment(card, p, t) the stats are Some({p, t}) and the
\* card has no summoning sickness, whatever payload it held before, and a second
\* call with the same arguments changes nothing
C12_AddInstalls ==
    op.name = "add_creature_fragment" =>
        /\ creature_stats(card) = Some([power |-> op.args[1], toughness |-> op.args[2]])
        /\ has_summoning_sickness(card) = FALSE
        /\ add_creature_fragment(card, op.args[1], op.args[2]) = card

\* A payload with summoning sickness and other stats was replaced
C12_Witness ==
    /\ op.name = "add_creature_fragment"
    /\ has_summoning_sickness(op.before)
    /\ creature_stats(op.before) # creature_stats(card)
    /\ creature_stats(op.before) # None

\* C13: on a card with the Creature capability set_summoning_sickness(card, v)
\* makes has_summoning_sickness return v; on a card without it the call changes
\* nothing and has_summoning_sickness is false before and after
C13_SicknessBit ==
    /\ (op.name = "set_summoning_sickness" /\ CapabilityPresent(op.before)) =>
           has_summoning_sickness(card) = op.args[1]
    /\ (op.name = "set_summoning_sickness" /\ ~CapabilityPresent(op.before)) =>
           /\ card = op.before
           /\ has_summoning_sickness(op.before) = FALSE
           /\ has_summoning_sickness(card) = FALSE
    /\ (op.name = "has_summoning_sickness" /\ ~CapabilityPresent(op.before)) =>
           op.result = <<FALSE>>

\* The bit of a card with the capability was turned on
C13_Witness ==
    /\ op.name = "set_summoning_sickness"
    /\ op.args = <<TRUE>>
    /\ CapabilityPresent(op.before)
    /\ ~has_summoning_sickness(op.before)

\* C14: after remove_creature_fragment the capability is gone, creature_stats is
\* None and has_summoning_sickness is false, a second removal changes nothing, and
\* a card without the capability is left as it was
C14_RemoveUninstalls ==
    op.name = "remove_creature_fragment" =>
        /\ ~CapabilityPresent(card)
        /\ creature_stats(card) = None
        /\ has_summoning_sickness(card) = FALSE
        /\ remove_creature_fragment(card) = card
        /\ ~CapabilityPresent(op.before) => card = op.before

\* The removal on a card without the capability, holding a fragment of another kind
C14_Witness ==
    /\ op.name = "remove_creature_fragment"
    /\ ~CapabilityPresent(op.before)
    /\ OtherFragments(op.before) # <<>>

\* C15: set_summoning_sickness leaves power and toughness as they were; the three
\* mutators leave the category tags and the fragments of other kinds as they
\* were; the three queries leave the card as it was
C15_Frame ==
    /\ op.name = "set_summoning_sickness" =>
           creature_stats(card) = creature_stats(op.before)
    /\ op.name \in Mutators =>
           /\ card.card_types = op.before.card_types
           /\ OtherFragments(card) = OtherFragments(op.before)
    /\ op.name \in Queries => card = op.before

\* The bit of a creature with stats was changed
C15_Witness ==
    /\ op.name = "set_summoning_sickness"
    /\ creature_stats(op.before) # None
    /\ has_summoning_sickness(card) # has_summoning_sickness(op.before)
    /\ OtherFragments(op.before) # <<>>

====
